---- MODULE Spec2Model ----
(***************************************************************************)
(* ecore2atl.py: convert the ecore:EClass elements of an ecore file into   *)
(* dummy atl copy rules, written to ${model_name}.atl.                     *)
(*                                                                         *)
(* The model follows one run of the script: the command-line dispatch, the *)
(* parse of the ecore file, the nsPrefix lookup, the opening of the output *)
(* file, one step of the parse_rules generator per child of the document   *)
(* element together with the body of main's loop, and the final report.    *)
(*                                                                         *)
(* Text is modelled as it is produced: a line is the string the % format   *)
(* builds, and the output file is the sequence of its newline-terminated   *)
(* lines (every out.write of the script ends its text with a newline).     *)
(***************************************************************************)
EXTENDS Integers, Sequences, FiniteSets, TLC

(***************************************************************************)
(* Bounds of the model.                                                    *)
(***************************************************************************)
\* Largest number of command-line arguments tried.
MaxArgs == 3
\* Largest number of nodes below the document element (children of the root
\* plus the children of those children).
MaxNodes == 4
\* Largest number of direct children of the document element.
MaxChildren == 2

(***************************************************************************)
(* The DOM as minidom presents it.                                         *)
(***************************************************************************)
\* Value standing for "this attribute is not in the element's attribute map".
NoAttr == "<no attribute>"
\* Value standing for a variable that holds nothing yet.
Unset == "<unset>"
\* Python's None, the value of get_rule for a classifier without attributes.
None == [none |-> TRUE]
\* The value of doc before the parse.
NoDocument == [parsed |-> FALSE]

ELEMENT_NODE == "ELEMENT_NODE"
TEXT_NODE == "TEXT_NODE"

\* The module name given on the command line (args[1]).
ModelName == "M"

\* A child of a classifier: an element with a tag and a `name' attribute
\* (or none), or a text node.
KidElement(tag, name) ==
  [nodeType |-> ELEMENT_NODE, tagName |-> tag, name |-> name]

KidText == [nodeType |-> TEXT_NODE, tagName |-> NoAttr, name |-> NoAttr]

KidNodes ==
  { KidText,
    KidElement("eStructuralFeatures", "a"),
    KidElement("eStructuralFeatures", "b"),
    KidElement("eStructuralFeatures", NoAttr),
    KidElement("eOperations", "a") }

\* A child of the document element.
Element(tag, xsi, abstract, name, kids) ==
  [nodeType |-> ELEMENT_NODE, tagName |-> tag, xsi_type |-> xsi,
   abstract |-> abstract, name |-> name, childNodes |-> kids]

TextNode ==
  [nodeType |-> TEXT_NODE, tagName |-> NoAttr, xsi_type |-> NoAttr,
   abstract |-> NoAttr, name |-> NoAttr, childNodes |-> <<>>]

\* The attribute profiles of the elements tried: <<tag, xsi:type, abstract, name>>.
ElementProfiles ==
  { <<"eClassifiers", "ecore:EClass", NoAttr, "Foo">>,
    <<"eClassifiers", "ecore:EClass", "false", "Bar">>,
    <<"eClassifiers", "ecore:EClass", "true", "Foo">>,
    <<"eClassifiers", "ecore:EClass", "true", NoAttr>>,
    <<"eClassifiers", "ecore:EClass", NoAttr, NoAttr>>,
    <<"eClassifiers", "ecore:EDataType", NoAttr, NoAttr>>,
    <<"eAnnotations", "ecore:EClass", NoAttr, "Foo">>,
    <<"eClassifiers", "ecore:EClass", "false", NoAttr>>,
    <<"eClassifiers", "ecore:EDataType", "true", "Foo">>,
    <<"eClassifiers", NoAttr, NoAttr, "Foo">>,
    <<"eAnnotations", "ecore:EDataType", NoAttr, "Bar">>,
    <<"eAnnotations", NoAttr, NoAttr, NoAttr>> }

\* The kinds of children of the document element tried: a text node, or an
\* element with one of the attribute profiles.
ChildKinds == {<<TEXT_NODE>>} \cup ElementProfiles

\* The sum of the first k values of a sequence of numbers.
RECURSIVE SumTo(_, _)
SumTo(ms, k) == IF k = 0 THEN 0 ELSE SumTo(ms, k - 1) + ms[k]

\* The document whose j-th child has the kind kinds[j] and, as its own
\* children, the next ms[j] nodes of the sequence flat.
MakeDocument(ns, kinds, ms, flat) ==
  [parsed |-> TRUE,
   nsPrefix |-> ns,
   childNodes |->
     [j \in 1..Len(kinds) |->
        IF kinds[j] = <<TEXT_NODE>> THEN TextNode
        ELSE Element(kinds[j][1], kinds[j][2], kinds[j][3], kinds[j][4],
                     [m \in 1..ms[j] |-> flat[SumTo(ms, j - 1) + m]])]]

(***************************************************************************)
(* Rule and its rendering.                                                 *)
(***************************************************************************)
\* Whitespace to use for indentation: ' ' * 4.
INDENT == "    "

\* Rule.__init__
Rule(name, ns) == [name |-> name, ns |-> ns, attrs |-> <<>>]

\* Mutant of add_attr: the attribute is put in front (attrs.insert(0, attr)).
add_attr_front(rule, attr) == [rule EXCEPT !.attrs = <<attr>> \o @]

\* Rule.add_attr
add_attr(rule, attr) == [rule EXCEPT !.attrs = Append(@, attr)]

\* ',\n'.join(attrs), as the lines of the joined text: every line but the
\* last ends with the comma; the join of no strings is the empty string,
\* which is one empty line.
join_comma_newline(attrs) ==
  IF attrs = <<>> THEN <<"">>
  ELSE [k \in 1..Len(attrs) |->
          IF k < Len(attrs) THEN attrs[k] \o "," ELSE attrs[k]]

\* The line '%s%s <- c_in.%s' % (INDENT * 3, attr, attr) of one attribute.
attr_line(attr) == INDENT \o INDENT \o INDENT \o attr \o " <- c_in." \o attr

\* Rule.__str__, as the lines of '\n'.join(lines).
Rule_str(rule) ==
  LET rtype == rule.ns \o "!" \o rule.name
      attrs == [k \in 1..Len(rule.attrs) |-> attr_line(rule.attrs[k])]
  IN  << "rule " \o rule.name \o "Rule {",
         INDENT \o "from",
         INDENT \o INDENT \o "c_in: " \o rtype,
         INDENT \o "to",
         INDENT \o INDENT \o "c_out: " \o rtype \o " (" >>
      \o join_comma_newline(attrs)
      \o << INDENT \o INDENT \o ")", "}" >>

(***************************************************************************)
(* get_rule and parse_rules.                                               *)
(***************************************************************************)
\* Outcomes of a call or of a loop iteration: a returned (yielded) value, a
\* raised exception, or `continue'.
Returned(v) == [raised |-> FALSE, continue |-> FALSE, value |-> v]
Raised(e) == [raised |-> TRUE, continue |-> FALSE, value |-> e]

\* The loop of get_rule over classifier.childNodes: add the `name' of each
\* eStructuralFeatures element to the rule; attributes['name'] raises
\* KeyError when the element has no such attribute.
RECURSIVE get_rule_loop(_, _)
get_rule_loop(rule, childNodes) ==
  IF childNodes = <<>> THEN Returned(rule)
  ELSE LET child == Head(childNodes) IN
       IF child.nodeType # ELEMENT_NODE
         THEN get_rule_loop(rule, Tail(childNodes))
       ELSE IF child.tagName = "eStructuralFeatures"
         THEN IF child.name = NoAttr
                THEN Raised("KeyError: 'name'")
                ELSE get_rule_loop(add_attr(rule, child.name), Tail(childNodes))
       ELSE get_rule_loop(rule, Tail(childNodes))

\* Mutant of get_rule: the test `if not rule.attrs' is left out.
get_rule_keep_empty(classifier, ns_prefix) ==
  IF classifier.name = NoAttr THEN Raised("KeyError: 'name'")
  ELSE get_rule_loop(Rule(classifier.name, ns_prefix), classifier.childNodes)

\* Mutant of get_rule: a classifier without a name is passed over as None
\* (attributes.get('name') and an early return).
get_rule_skip_nameless(classifier, ns_prefix) ==
  IF classifier.name = NoAttr THEN Returned(None)
  ELSE LET r == get_rule_loop(Rule(classifier.name, ns_prefix),
                              classifier.childNodes)
       IN  IF r.raised THEN r
           ELSE IF r.value.attrs = <<>> THEN Returned(None)
           ELSE r

\* get_rule: a Rule parsed from the classifier, None when it has no attributes.
get_rule(classifier, ns_prefix) ==
  IF classifier.name = NoAttr THEN Raised("KeyError: 'name'")
  ELSE LET r == get_rule_loop(Rule(classifier.name, ns_prefix),
                              classifier.childNodes)
       IN  IF r.raised THEN r
           ELSE IF r.value.attrs = <<>> THEN Returned(None)
           ELSE r

\* Mutant of wrong_type: `and' in place of `or'.
wrong_type_both(child) ==
  child.tagName # "eClassifiers" /\ child.xsi_type # "ecore:EClass"

\* parse_rules, the test "Skip elements of wrong type".
wrong_type(child) ==
  child.tagName # "eClassifiers" \/ child.xsi_type # "ecore:EClass"

\* Mutant of is_abstract: the value is compared with Python's spelling 'True'.
is_abstract_capitalised(child) ==
  child.abstract # NoAttr /\ child.abstract = "True"

\* parse_rules, the test "Skip abstract types": attributes.get('abstract')
\* is the attribute or None, and the classifier is skipped when the attribute
\* is there with the value 'true'.
is_abstract(child) == child.abstract # NoAttr /\ child.abstract = "true"

\* One iteration of the loop of parse_rules on one child of the document
\* element: "continue", a raised exception, or a yielded value.
Continue == [raised |-> FALSE, continue |-> TRUE, value |-> None]
IsContinue(r) == r.continue

parse_rules_step(child, ns_prefix) ==
  IF child.nodeType # ELEMENT_NODE THEN Continue
  ELSE IF child.xsi_type = NoAttr THEN Raised("KeyError: 'xsi:type'")
  ELSE IF wrong_type(child) THEN Continue
  ELSE IF is_abstract(child) THEN Continue
  ELSE get_rule(child, ns_prefix)

(***************************************************************************)
(* main and the command line.                                              *)
(***************************************************************************)
VARIABLES
  argc,        \* len(sys.argv[1:])
  pc,          \* where the run is
  ecore_read,  \* the ecore file was handed to minidom.parse
  doc,         \* the parsed document, NoDocument before the parse
  ns_prefix,   \* main's ns_prefix, Unset before it is read
  out_opened,  \* ${model_name}.atl was opened for writing (created or truncated)
  out,         \* the lines written to ${model_name}.atl
  i,           \* children of the document element the generator has taken
  yielded,     \* the values parse_rules has yielded so far
  count,       \* main's count
  stdout,      \* the lines printed
  stderr,      \* the text written to sys.stderr
  exc,         \* the exception that ended the run, Unset when none
  exit_status  \* the exit statuses of the process: none while it runs, then one

vars == <<argc, pc, ecore_read, doc, ns_prefix, out_opened, out, i, yielded, count,
          stdout, stderr, exc, exit_status>>

\* The module docstring, written to stderr on a wrong argument count.
Usage == "__doc__"

\* Mutant of two_args: `if len(args) >= 2'.
two_args_at_least(n) == n >= 2

\* __main__: `if len(args) == 2'.
two_args(n) == n = 2

\* The two header writes of main.
Header(model_name, ns) ==
  << "module " \o model_name \o ";",
     "create OUT: " \o ns \o " from IN: " \o ns \o ";" >>

\* `if rule:' in main: None is false, a Rule instance is true.
truthy(rule) == rule # None

\* Mutant of main_count: the count is incremented outside `if rule:'.
main_count_every_slot(n, rule) == n + 1

\* The body of main's loop for one value of the generator: the count.
main_count(n, rule) == IF truthy(rule) THEN n + 1 ELSE n

\* Mutant of main_write: out.write('%s\n' % str(rule)), no leading newline.
main_write_no_blank(lines, rule) ==
  IF truthy(rule) THEN lines \o Rule_str(rule) ELSE lines

\* The body of main's loop for one value of the generator:
\* out.write('\n%s\n' % str(rule)), which is an empty line and then the
\* lines of the rule.
main_write(lines, rule) ==
  IF truthy(rule) THEN lines \o <<"">> \o Rule_str(rule) ELSE lines

\* print 'Extracted %d rules.' % count
report_line(n) == "Extracted " \o ToString(n) \o " rules."

Init ==
  /\ argc \in 0..MaxArgs
  /\ pc = "cli"
  /\ ecore_read = FALSE
  /\ doc = NoDocument
  /\ ns_prefix = Unset
  /\ out_opened = FALSE
  /\ out = <<>>
  /\ i = 0
  /\ yielded = <<>>
  /\ count = 0
  /\ stdout = <<>>
  /\ stderr = <<>>
  /\ exc = Unset
  /\ exit_status = <<>>

\* An uncaught exception ends the process with status 1.
Abort(e) ==
  /\ exc' = e
  /\ exit_status' = <<1>>
  /\ pc' = "exited"

\* __main__ with a number of arguments other than two.
CliUsage ==
  /\ pc = "cli"
  /\ ~two_args(argc)
  /\ stderr' = Append(stderr, Usage)
  /\ exit_status' = <<2>>
  /\ pc' = "exited"
  /\ UNCHANGED <<argc, ecore_read, doc, ns_prefix, out_opened, out, i,
                 yielded, count, stdout, exc>>

\* main: doc = minidom.parse(ecore_file), on a well-formed file: any document
\* of at most MaxChildren children of the document element and at most
\* MaxNodes nodes below it, with or without the nsPrefix attribute.
MainParse ==
  /\ pc = "cli"
  /\ two_args(argc)
  /\ \E ns \in {"pn", NoAttr}, k \in 0..MaxChildren :
       \E kinds \in [1..k -> ChildKinds], ms \in [1..k -> 0..(MaxNodes - 1)] :
         /\ k + SumTo(ms, k) <= MaxNodes
         /\ \A j \in 1..k : kinds[j] = <<TEXT_NODE>> => ms[j] = 0
         /\ \E flat \in [1..SumTo(ms, k) -> KidNodes] :
              doc' = MakeDocument(ns, kinds, ms, flat)
  /\ ecore_read' = TRUE
  /\ pc' = "ns_prefix"
  /\ UNCHANGED <<argc, ns_prefix, out_opened, out, i, yielded, count, stdout,
                 stderr, exc, exit_status>>

\* main: doc = minidom.parse(ecore_file), on a file that is not XML.
MainParseFails ==
  /\ pc = "cli"
  /\ two_args(argc)
  /\ ecore_read' = TRUE
  /\ Abort("ExpatError")
  /\ UNCHANGED <<argc, doc, ns_prefix, out_opened, out, i, yielded, count,
                 stdout, stderr>>

\* Mutant of MainNsPrefix: the prefix is read with attributes.get and no
\* check, so a document without nsPrefix goes on.
MainNsPrefix_unchecked ==
  /\ pc = "ns_prefix"
  /\ ns_prefix' = doc.nsPrefix
  /\ pc' = "open"
  /\ UNCHANGED <<argc, ecore_read, doc, out_opened, out, i, yielded, count,
                 stdout, stderr, exc, exit_status>>

\* main: ns_prefix = doc.documentElement.attributes['nsPrefix'].value and
\* rules = parse_rules(doc, ns_prefix), which runs nothing of the generator.
MainNsPrefix ==
  /\ pc = "ns_prefix"
  /\ doc.nsPrefix # NoAttr
  /\ ns_prefix' = doc.nsPrefix
  /\ pc' = "open"
  /\ UNCHANGED <<argc, ecore_read, doc, out_opened, out, i, yielded, count,
                 stdout, stderr, exc, exit_status>>

MainNsPrefixFails ==
  /\ pc = "ns_prefix"
  /\ doc.nsPrefix = NoAttr
  /\ Abort("KeyError: 'nsPrefix'")
  /\ UNCHANGED <<argc, ecore_read, doc, ns_prefix, out_opened, out, i,
                 yielded, count, stdout, stderr>>

\* main: open the output file, write the two header lines, count = 0.
MainOpen ==
  /\ pc = "open"
  /\ out_opened' = TRUE
  /\ out' = Header(ModelName, ns_prefix)
  /\ count' = 0
  /\ pc' = "loop"
  /\ UNCHANGED <<argc, ecore_read, doc, ns_prefix, i, yielded, stdout,
                 stderr, exc, exit_status>>

\* The generator takes the next child of the document element and skips it.
LoopContinue ==
  /\ pc = "loop"
  /\ i < Len(doc.childNodes)
  /\ IsContinue(parse_rules_step(doc.childNodes[i + 1], ns_prefix))
  /\ i' = i + 1
  /\ UNCHANGED <<argc, pc, ecore_read, doc, ns_prefix, out_opened, out,
                 yielded, count, stdout, stderr, exc, exit_status>>

\* The generator takes the next child and raises: the exception leaves the
\* with block (which closes the file) and main.
LoopRaise ==
  /\ pc = "loop"
  /\ i < Len(doc.childNodes)
  /\ LET r == parse_rules_step(doc.childNodes[i + 1], ns_prefix) IN
       /\ r.raised
       /\ Abort(r.value)
  /\ i' = i + 1
  /\ UNCHANGED <<argc, ecore_read, doc, ns_prefix, out_opened, out, yielded,
                 count, stdout, stderr>>

\* The generator takes the next child and yields get_rule's value; the body
\* of main's loop runs on it.
LoopYield ==
  /\ pc = "loop"
  /\ i < Len(doc.childNodes)
  /\ LET r == parse_rules_step(doc.childNodes[i + 1], ns_prefix) IN
       /\ ~r.raised
       /\ ~IsContinue(r)
       /\ yielded' = Append(yielded, r.value)
       /\ count' = main_count(count, r.value)
       /\ out' = main_write(out, r.value)
  /\ i' = i + 1
  /\ UNCHANGED <<argc, pc, ecore_read, out_opened, doc, ns_prefix, stdout,
                 stderr, exc, exit_status>>

\* The generator is exhausted: main prints the count, leaves the with block,
\* returns 0, and __main__ exits with it.
MainReport ==
  /\ pc = "loop"
  /\ i = Len(doc.childNodes)
  /\ stdout' = Append(stdout, report_line(count))
  /\ exit_status' = <<0>>
  /\ pc' = "exited"
  /\ UNCHANGED <<argc, ecore_read, doc, ns_prefix, out_opened, out, i,
                 yielded, count, stderr, exc>>

Next ==
  \/ CliUsage
  \/ MainParse
  \/ MainParseFails
  \/ MainNsPrefix
  \/ MainNsPrefixFails
  \/ MainOpen
  \/ LoopContinue
  \/ LoopRaise
  \/ LoopYield
  \/ MainReport

Spec == Init /\ [][Next]_vars

(***************************************************************************)
(* Vocabulary of the properties, stated on the input document and on the   *)
(* text of the output file.                                                *)
(***************************************************************************)
IsElement(node) == node.nodeType = ELEMENT_NODE

\* An element that has an xsi:type but is not an eClassifiers of type
\* ecore:EClass.
NonClassifier(c) ==
  /\ IsElement(c)
  /\ c.xsi_type # NoAttr
  /\ ~(c.tagName = "eClassifiers" /\ c.xsi_type = "ecore:EClass")

\* An element without an xsi:type attribute.
LacksDiscriminator(c) == IsElement(c) /\ c.xsi_type = NoAttr

\* An eClassifiers element of type ecore:EClass.
ClassElement(c) ==
  IsElement(c) /\ c.tagName = "eClassifiers" /\ c.xsi_type = "ecore:EClass"

AbstractClass(c) == ClassElement(c) /\ c.abstract = "true"

ConcreteClass(c) == ClassElement(c) /\ c.abstract # "true"

\* The eStructuralFeatures element children of a classifier, in document order.
Features(c) ==
  SelectSeq(c.childNodes,
            LAMBDA k : IsElement(k) /\ k.tagName = "eStructuralFeatures")

\* Their `name' values, in document order.
FeatureNames(c) == [k \in 1..Len(Features(c)) |-> Features(c)[k].name]

\* A concrete class whose own name or one of whose features' names is missing.
MissingName(c) ==
  /\ ConcreteClass(c)
  /\ \/ c.name = NoAttr
     \/ \E k \in 1..Len(Features(c)) : Features(c)[k].name = NoAttr

\* A concrete class that gets a rule: it has at least one feature.
RuleBearing(c) == ConcreteClass(c) /\ Features(c) # <<>>

\* The child the generator takes next, when there is one.
AtChild == pc = "loop" /\ i < Len(doc.childNodes)
NextChild == doc.childNodes[i + 1]

\* The child the generator took last.
Examined == i >= 1
LastChild == doc.childNodes[i]

\* The step in which a child is passed over without any effect.
Ignored ==
  /\ i' = i + 1
  /\ pc' = "loop"
  /\ UNCHANGED <<out_opened, out, yielded, count, stdout, stderr, exc, exit_status>>

\* The names a classifier can have in the documents tried.
ClassNames == { p[4] : p \in ElementProfiles } \ {NoAttr}

\* The number of lines of a text that open a rule block.
RuleBlocks(lines) ==
  Cardinality({ k \in 1..Len(lines) :
                  \E n \in ClassNames : lines[k] = "rule " \o n \o "Rule {" })

\* The attribute mapping of one attribute in the output grammar, with the
\* separating comma when another one follows.
Mapping(attr, more) ==
  "            " \o attr \o " <- c_in." \o attr \o (IF more THEN "," ELSE "")

Mappings(names) ==
  [k \in 1..Len(names) |-> Mapping(names[k], k < Len(names))]

\* The rule block of the output grammar for a classifier.
Block(ns, c) ==
  << "rule " \o c.name \o "Rule {",
     "    from",
     "        c_in: " \o ns \o "!" \o c.name,
     "    to",
     "        c_out: " \o ns \o "!" \o c.name \o " (" >>
  \o Mappings(FeatureNames(c))
  \o << "        )", "}" >>

\* The output of the grammar for a sequence of children: the two header
\* lines, then for each rule-bearing class, in order, an empty line and its
\* block.
RECURSIVE Blocks(_, _)
Blocks(ns, cs) ==
  IF cs = <<>> THEN <<>>
  ELSE (IF RuleBearing(Head(cs)) THEN <<"">> \o Block(ns, Head(cs)) ELSE <<>>)
       \o Blocks(ns, Tail(cs))

Output(ns, cs) ==
  << "module " \o ModelName \o ";",
     "create OUT: " \o ns \o " from IN: " \o ns \o ";" >> \o Blocks(ns, cs)

Succeeded == pc = "exited" /\ exit_status = <<0>>

(***************************************************************************)
(* C1. The number printed in 'Extracted N rules.' is the number of rule    *)
(* blocks in the output file; throughout the run the count is the number   *)
(* of rule blocks written so far and the number of yielded values that are *)
(* not None.                                                               *)
(***************************************************************************)
C1_CountIsRulesWritten ==
  /\ count = RuleBlocks(out)
  /\ count = Cardinality({ k \in 1..Len(yielded) : yielded[k] # None })
  /\ Succeeded =>
       stdout = <<"Extracted " \o ToString(RuleBlocks(out)) \o " rules.">>

\* A successful run that met a None slot and wrote a rule.
C1_Witness ==
  /\ Succeeded
  /\ \E k \in 1..Len(yielded) : yielded[k] = None
  /\ RuleBlocks(out) >= 1

(***************************************************************************)
(* C2. A child element of the root that has an xsi:type but is not an      *)
(* eClassifiers of type ecore:EClass is passed over: the generator moves   *)
(* on, nothing is yielded, written or counted and no exception is raised,  *)
(* whatever its name and its children are.                                 *)
(***************************************************************************)
C2_NonClassifierIgnored ==
  [][(AtChild /\ NonClassifier(NextChild)) => Ignored]_vars

\* A nameless non-classifier with a nameless structural feature was passed
\* over and the run goes on.
C2_Witness ==
  /\ pc = "loop"
  /\ Examined
  /\ NonClassifier(LastChild)
  /\ LastChild.name = NoAttr
  /\ \E k \in 1..Len(Features(LastChild)) : Features(LastChild)[k].name = NoAttr

(***************************************************************************)
(* C3. A child element of the root without any xsi:type attribute is       *)
(* skipped and the run goes on with the following children.                *)
(***************************************************************************)
C3_MissingDiscriminatorSkipped ==
  (Examined /\ LacksDiscriminator(LastChild)) => (pc = "loop" /\ exc = Unset)

(***************************************************************************)
(* C4. An eClassifiers of type ecore:EClass whose abstract attribute is    *)
(* 'true' is passed over before its name and features are read: nothing is *)
(* yielded, written or counted and no exception is raised.                 *)
(***************************************************************************)
C4_AbstractIgnored ==
  [][(AtChild /\ AbstractClass(NextChild)) => Ignored]_vars

\* A nameless abstract class with features was passed over and the run goes on.
C4_Witness ==
  /\ pc = "loop"
  /\ Examined
  /\ AbstractClass(LastChild)
  /\ LastChild.name = NoAttr
  /\ Features(LastChild) # <<>>

C6_AttributeOrder ==
  [][(AtChild /\ out' # out)
       => SubSeq(out', Len(out) + 7, Len(out') - 2)
            = Mappings(FeatureNames(NextChild))]_vars

\* A rule was written for a class with the features b, a and another child.
C6_Witness ==
  /\ pc = "loop"
  /\ Examined
  /\ FeatureNames(LastChild) = <<"b", "a">>
  /\ Len(LastChild.childNodes) = 3
  /\ RuleBlocks(out) = 1

(***************************************************************************)
(* C7. When the root has no nsPrefix attribute the run ends with the       *)
(* KeyError of that lookup: the output file is never opened, no child of   *)
(* the root is examined, nothing is written and no count is printed.       *)
(***************************************************************************)
C7_NoPrefixAbortsBeforeOpen ==
  (doc.parsed /\ doc.nsPrefix = NoAttr)
    => /\ pc \in {"ns_prefix", "exited"}
       /\ ~out_opened
       /\ out = <<>>
       /\ i = 0
       /\ yielded = <<>>
       /\ stdout = <<>>
       /\ pc = "exited" => (exc = "KeyError: 'nsPrefix'" /\ exit_status = <<1>>)

\* A run on a document without nsPrefix whose first child would get a rule
\* has ended.
C7_Witness ==
  /\ pc = "exited"
  /\ doc.parsed
  /\ doc.nsPrefix = NoAttr
  /\ doc.childNodes # <<>>
  /\ RuleBearing(doc.childNodes[1])

(***************************************************************************)
(* C8. With a number of arguments other than two the usage text goes to    *)
(* stderr and the exit status is 2, the ecore file is not read and no      *)
(* output file is opened; with two arguments a run that ends without an    *)
(* exception exits with status 0.                                          *)
(***************************************************************************)
C8_ArityDispatch ==
  /\ argc # 2
       => /\ ~ecore_read
          /\ ~doc.parsed
          /\ ~out_opened
          /\ out = <<>>
          /\ stdout = <<>>
          /\ pc = "exited" => (stderr = <<Usage>> /\ exit_status = <<2>>)
  /\ (argc = 2 /\ pc = "exited" /\ exc = Unset)
       => (exit_status = <<0>> /\ stderr = <<>>)

\* A run with three arguments has ended.
C8_Witness == pc = "exited" /\ argc = 3

(***************************************************************************)
(* C9. Once the generator has taken a concrete class whose name, or the    *)
(* name of one of whose features, is missing, the run has ended with the   *)
(* KeyError of the `name' lookup and exit status 1, no count is printed,   *)
(* and the output file holds the header and the rules of the children      *)
(* before it, in order, and nothing else.                                  *)
(***************************************************************************)
C9_MissingNameAborts ==
  \A j \in 1..i :
    MissingName(doc.childNodes[j])
      => /\ j = i
         /\ pc = "exited"
         /\ exc = "KeyError: 'name'"
         /\ exit_status = <<1>>
         /\ stdout = <<>>
         /\ out = Output(ns_prefix, SubSeq(doc.childNodes, 1, i - 1))

\* The run ended on a named class with a nameless feature, after a rule had
\* been written.
C9_Witness ==
  /\ pc = "exited"
  /\ Examined
  /\ MissingName(LastChild)
  /\ LastChild.name # NoAttr
  /\ RuleBlocks(out) = 1

(***************************************************************************)
(* C10. On a successful run the output file is the two header lines and    *)
(* then, for each concrete class with at least one feature, in document    *)
(* order, an empty line and its rule block; the count printed is the       *)
(* number of those classes (0, and the header alone, when there is none).  *)
(***************************************************************************)
C10_SuccessfulOutput ==
  Succeeded
    => /\ out = Output(ns_prefix, doc.childNodes)
       /\ stdout =
            << "Extracted "
               \o ToString(Cardinality({ j \in 1..Len(doc.childNodes) :
                                           RuleBearing(doc.childNodes[j]) }))
               \o " rules." >>

\* A successful run on two classes that get different rules.
C10_Witness ==
  /\ Succeeded
  /\ Len(doc.childNodes) = 2
  /\ RuleBearing(doc.childNodes[1])
  /\ RuleBearing(doc.childNodes[2])
  /\ doc.childNodes[1] # doc.childNodes[2]

====
